---- MODULE Spec2Model ----
(***************************************************************************)
(* pychubby action framework (src/pychubby/actions.py).                    *)
(*                                                                         *)
(* Coordinates are fixed-point integers: one model unit is 1e-5 of a       *)
(* reference-space unit.  cos/sin are tabulated to three decimals          *)
(* (Cos1000), Lambda proportions and scales are given in tenths, so the    *)
(* product cos * prop * scale of actions.py:186 is an exact integer.       *)
(* Arrays are functions on 0..n-1, dicts are sequences of <<key, value>>   *)
(* pairs in insertion order.                                               *)
(***************************************************************************)
EXTENDS Integers, Sequences, FiniteSets, TLC

VARIABLES faces, calls, objs, rs, thr

vars == <<faces, calls, objs, rs, thr>>

\* number of landmarks: np.zeros((68, 2)), range(68)
N == 68

\* bound on the number of calls made in one behaviour of Spec
MaxCalls == 2

\* bounds of SpecConc: concurrent perform invocations, constructed actions
NThreads == 2
MaxObjs == 2

None == [none |-> TRUE, d |-> <<>>]
Some(d) == [none |-> FALSE, d |-> d]

----------------------------------------------------------------------------
(* numpy arrays                                                            *)

Add(p, q) == <<p[1] + q[1], p[2] + q[2]>>
Sub(p, q) == <<p[1] - q[1], p[2] - q[2]>>

Rows(a) == Cardinality(DOMAIN a)

\* a.shape == (N, 2)
ShapeOk(a) == DOMAIN a = 0..(N - 1) /\ \A i \in DOMAIN a : Len(a[i]) = 2

\* numpy row indexing a[k] of an array with N rows: -N..-1 count from the
\* end, anything else outside 0..N-1 raises IndexError (reported as -1).
NpIndex(k) == IF k >= 0 /\ k < N THEN k
              ELSE IF k < 0 /\ k >= -N THEN k + N
              ELSE -1

\* zeros((68, 2))
Zeros == [i \in 0..(N - 1) |-> <<0, 0>>]

\* d[k] = v on a dict kept as a sequence of pairs
DictSet(d, k, v) ==
    IF \E j \in 1..Len(d) : d[j][1] = k
    THEN [j \in 1..Len(d) |-> IF d[j][1] = k THEN <<k, v>> ELSE d[j]]
    ELSE Append(d, <<k, v>>)

----------------------------------------------------------------------------
(* trigonometry, in degrees that are multiples of 10                       *)

CosTab == <<1000, 985, 940, 866, 766, 643, 500, 342, 174, 0>>

Cos1000(deg) ==
    LET a == deg % 360
    IN  IF a <= 90 THEN CosTab[(a \div 10) + 1]
        ELSE IF a <= 180 THEN -CosTab[((180 - a) \div 10) + 1]
        ELSE IF a <= 270 THEN -CosTab[((a - 180) \div 10) + 1]
        ELSE CosTab[((360 - a) \div 10) + 1]

Sin1000(deg) == Cos1000(deg - 90)

\* cos and sin of q quarter turns (LinearTransform's rotation and shear)
CosQ(q) == Cos1000(90 * q) \div 1000
SinQ(q) == Sin1000(90 * q) \div 1000

----------------------------------------------------------------------------
(* collaborators: face container, reference space, displacement field      *)

\* LandmarkFace(points, img)
LandmarkFace(points, img) == [points |-> points, img |-> img]

\* symbolic landmark names (those the presets use)
LANDMARK_NAMES ==
    [LOWER_TEMPLE_L |-> 2, UPPERMOST_CHEEK_L |-> 3, UPPER_CHEEK_L |-> 4,
     LOWER_CHEEK_L |-> 5, LOWERMOST_CHEEK_L |-> 6, CHIN_L |-> 7, CHIN |-> 8,
     CHIN_R |-> 9, LOWERMOST_CHEEK_R |-> 10, LOWER_CHEEK_R |-> 11,
     UPPER_CHEEK_R |-> 12, UPPERMOST_CHEEK_R |-> 13, LOWER_TEMPLE_R |-> 14,
     OUTERMOST_EYEBROW_L |-> 17, OUTER_EYEBROW_L |-> 18,
     MIDDLE_EYEBROW_L |-> 19, INNER_EYEBROW_L |-> 20,
     INNERMOST_EYEBROW_L |-> 21, INNERMOST_EYEBROW_R |-> 22,
     INNER_EYEBROW_R |-> 23, MIDDLE_EYEBROW_R |-> 24,
     OUTER_EYEBROW_R |-> 25, OUTERMOST_EYEBROW_R |-> 26,
     OUTER_EYE_LID_L |-> 37, INNER_EYE_LID_L |-> 38,
     INNER_EYE_BOTTOM_L |-> 40, OUTER_EYE_BOTTOM_L |-> 41,
     INNER_EYE_LID_R |-> 43, OUTER_EYE_LID_R |-> 44,
     OUTER_EYE_BOTTOM_R |-> 46, INNER_EYE_BOTTOM_R |-> 47,
     OUTSIDE_MOUTH_CORNER_L |-> 48, OUTER_OUTSIDE_UPPER_LIP_L |-> 49,
     OUTER_OUTSIDE_UPPER_LIP_R |-> 53, OUTSIDE_MOUTH_CORNER_R |-> 54,
     INSIDE_MOUTH_CORNER_L |-> 60, INSIDE_MOUTH_CORNER_R |-> 64]

\* v turned by q quarter turns
Rot(q, v) == CASE q % 4 = 0 -> v
               [] q % 4 = 1 -> <<-v[2], v[1]>>
               [] q % 4 = 2 -> <<-v[1], -v[2]>>
               [] OTHER     -> <<v[2], -v[1]>>

Abs(x) == IF x < 0 THEN -x ELSE x

\* the quarter turn nearest to the direction of v
Quadrant(v) == IF Abs(v[1]) >= Abs(v[2])
               THEN (IF v[1] >= 0 THEN 0 ELSE 2)
               ELSE (IF v[2] > 0 THEN 1 ELSE 3)

Unfitted == [fitted |-> FALSE, origin |-> <<0, 0>>, rot |-> 0]

\* ReferenceSpace.estimate(lf): the frame fitted to the face (a rigid motion:
\* origin at the outer corner of one eye, axis along the line of the eyes)
DefaultRS_estimate(lf) ==
    [fitted |-> TRUE,
     origin |-> lf.points[36],
     rot    |-> Quadrant(Sub(lf.points[45], lf.points[36]))]

\* ReferenceSpace.inp2ref / ref2inp on one point
inp2ref(fit, p) == Rot(4 - fit.rot, Sub(p, fit.origin))
ref2inp(fit, r) == Add(fit.origin, Rot(fit.rot, r))

NoField == [ok |-> FALSE, old |-> <<>>, new |-> <<>>]

\* DisplacementField.generate(shape, old_points, new_points, anchor_edges=True)
DisplacementField_generate(old_points, new_points) ==
    IF ShapeOk(new_points) /\ ShapeOk(old_points)
    THEN [ok |-> TRUE, old |-> old_points, new |-> new_points]
    ELSE NoField

\* df.warp(img): the picture's features follow the landmark displacements
warp(df, img) == [i \in DOMAIN img |-> Add(img[i], Sub(df.new[i], df.old[i]))]

----------------------------------------------------------------------------
(* Action.pts2inst                                                         *)

\* what a call returns: status, the heap of faces after it, the new face's
\* place on the heap (0: none), the field, and the shift maps it reduced to.
\* A status other than "ok" is the exception that left the call, under the
\* name the design gives its kind: numpy's IndexError is LandmarkIndexError,
\* the KeyError of LANDMARK_NAMES[k] is UnknownLandmarkNameError, the error of
\* DisplacementField.generate is ShapeError.
Result(status, heap, new, df, xs, ys) ==
    [status |-> status, faces |-> heap, new |-> new, df |-> df,
     xs |-> xs, ys |-> ys]

Raise(err, heap) == Result(err, heap, 0, NoField, <<>>, <<>>)

pts2inst_Unchecked(new_points, lf, heap) ==
    LET df == DisplacementField_generate(heap[lf].points, new_points)
    IN  Result("ok", Append(heap, LandmarkFace(new_points,
                                               IF df.ok THEN warp(df, heap[lf].img)
                                               ELSE heap[lf].img)),
               Len(heap) + 1, df, <<>>, <<>>)

pts2inst_InPlace(new_points, lf, heap) ==
    LET heap1 == [heap EXCEPT ![lf].points = new_points]
        df == DisplacementField_generate(heap[lf].points, new_points)
    IN  IF ~df.ok THEN Raise("ShapeError", heap1)
        ELSE Result("ok", Append(heap1, LandmarkFace(new_points, warp(df, heap[lf].img))),
                    Len(heap) + 1, df, <<>>, <<>>)

pts2inst(new_points, lf, heap) ==
    LET df == DisplacementField_generate(heap[lf].points, new_points)
    IN  IF ~df.ok THEN Raise("ShapeError", heap)
        ELSE Result("ok", Append(heap, LandmarkFace(new_points, warp(df, heap[lf].img))),
                    Len(heap) + 1, df, <<>>, <<>>)

----------------------------------------------------------------------------
(* AbsoluteMove                                                            *)

AbsoluteMove_init(x_shifts, y_shifts) ==
    [cls |-> "AbsoluteMove",
     x_shifts |-> IF x_shifts.none \/ x_shifts.d = <<>> THEN <<>> ELSE x_shifts.d,
     y_shifts |-> IF y_shifts.none \/ y_shifts.d = <<>> THEN <<>> ELSE y_shifts.d]

Max(S) == CHOOSE j \in S : \A k \in S : k <= j

\* for k, v in shifts.items(): offsets[k, col] = v
\* (every key is written in dict order, so the last write to a row stays; a key
\* that is no row of the array raises before anything is returned)
SetOffsets(offsets, shifts, col) ==
    IF \E j \in 1..Len(shifts) : NpIndex(shifts[j][1]) < 0
    THEN [ok |-> FALSE, a |-> offsets]
    ELSE [ok |-> TRUE,
          a |-> [i \in DOMAIN offsets |->
                   LET W == {j \in 1..Len(shifts) : NpIndex(shifts[j][1]) = i}
                   IN  IF W = {} THEN offsets[i]
                       ELSE [offsets[i] EXCEPT ![col] = shifts[Max(W)][2]]]]

AbsoluteMove_perform_OffsetsOnly(self, lf, heap) ==
    LET ox == SetOffsets(Zeros, self.x_shifts, 1)
        oy == SetOffsets(ox.a, self.y_shifts, 2)
    IN  IF ~ox.ok \/ ~oy.ok THEN Raise("LandmarkIndexError", heap)
        ELSE pts2inst(oy.a, lf, heap)

AbsoluteMove_perform_SameColumn(self, lf, heap) ==
    LET ox == SetOffsets(Zeros, self.x_shifts, 1)
        oy == SetOffsets(ox.a, self.y_shifts, 1)
        new_points == [i \in DOMAIN heap[lf].points |->
                          Add(heap[lf].points[i], oy.a[i])]
    IN  IF ~ox.ok \/ ~oy.ok THEN Raise("LandmarkIndexError", heap)
        ELSE pts2inst(new_points, lf, heap)

AbsoluteMove_perform(self, lf, heap) ==
    LET ox == SetOffsets(Zeros, self.x_shifts, 1)
        oy == SetOffsets(ox.a, self.y_shifts, 2)
        new_points == [i \in DOMAIN heap[lf].points |->
                          Add(heap[lf].points[i], oy.a[i])]
    IN  IF ~ox.ok \/ ~oy.ok THEN Raise("LandmarkIndexError", heap)
        ELSE pts2inst(new_points, lf, heap)

----------------------------------------------------------------------------
(* Lambda                                                                  *)

IntKey(i) == [kind |-> "int", idx |-> i, name |-> ""]
NameKey(s) == [kind |-> "name", idx |-> 0, name |-> s]

\* reference_space or DefaultRS(): rsid is the reference space object held
Lambda_init(scale, specs, rsid) ==
    [cls |-> "Lambda", scale |-> scale, specs |-> specs, reference_space |-> rsid]

\* np.array([[cos(radians(angle)), sin(radians(angle))]]) * prop * scale
RefShift_NoScale(angle, prop, scale) ==
    <<Cos1000(angle) * prop, Sin1000(angle) * prop>>

RefShift_Swapped(angle, prop, scale) ==
    <<Sin1000(angle) * prop * scale, Cos1000(angle) * prop * scale>>

RefShift(angle, prop, scale) ==
    <<Cos1000(angle) * prop * scale, Sin1000(angle) * prop * scale>>

\* the loop over self.specs.items(), from entry j on
RECURSIVE Lambda_shifts(_, _, _, _, _, _, _)
Lambda_shifts(self, fit, ref_points, points, j, xs, ys) ==
    IF j > Len(self.specs) THEN [status |-> "ok", xs |-> xs, ys |-> ys]
    ELSE LET k == self.specs[j][1]
             angle == self.specs[j][2][1]
             prop == self.specs[j][2][2]
         IN  IF k.kind # "int" /\ k.name \notin DOMAIN LANDMARK_NAMES
             THEN [status |-> "UnknownLandmarkNameError", xs |-> xs, ys |-> ys]
             ELSE LET key == IF k.kind = "int" THEN k.idx ELSE LANDMARK_NAMES[k.name]
                      i == NpIndex(key)
                  IN  IF i < 0
                      THEN [status |-> "LandmarkIndexError", xs |-> xs, ys |-> ys]
                      ELSE LET new_inp_point ==
                                   ref2inp(fit, Add(ref_points[i],
                                                    RefShift(angle, prop, self.scale)))
                               shift == Sub(new_inp_point, points[i])
                           IN  Lambda_shifts(self, fit, ref_points, points, j + 1,
                                             DictSet(xs, key, shift[1]),
                                             DictSet(ys, key, shift[2]))

\* Lambda.perform once the reference space holds `fit`
\* what AbsoluteMove(x_shifts, y_shifts).perform(lf) returns, with the maps
Delegate(x_shifts, y_shifts, lf, heap) ==
    [AbsoluteMove_perform(AbsoluteMove_init(Some(x_shifts), Some(y_shifts)), lf, heap)
        EXCEPT !.xs = x_shifts, !.ys = y_shifts]

Lambda_finish_Partial(self, fit, ref_points, lf, heap) ==
    LET sh == Lambda_shifts(self, fit, ref_points, heap[lf].points, 1, <<>>, <<>>)
    IN  Delegate(sh.xs, sh.ys, lf, heap)

Lambda_finish(self, fit, ref_points, lf, heap) ==
    LET sh == Lambda_shifts(self, fit, ref_points, heap[lf].points, 1, <<>>, <<>>)
    IN  IF sh.status # "ok" THEN Raise(sh.status, heap)
        ELSE Delegate(sh.xs, sh.ys, lf, heap)

\* reference_space.inp2ref(lf.points)
RefPoints(fit, points) == [i \in DOMAIN points |-> inp2ref(fit, points[i])]

\* Lambda.perform, uninterrupted
Lambda_perform(self, lf, heap) ==
    LET fit == DefaultRS_estimate(heap[lf])
    IN  Lambda_finish(self, fit, RefPoints(fit, heap[lf].points), lf, heap)

----------------------------------------------------------------------------
(* presets                                                                 *)

Chubbify_specs ==
    << <<NameKey("LOWER_TEMPLE_L"), <<170, 4>>>>,
       <<NameKey("LOWER_TEMPLE_R"), <<10, 4>>>>,
       <<NameKey("UPPERMOST_CHEEK_L"), <<160, 10>>>>,
       <<NameKey("UPPERMOST_CHEEK_R"), <<20, 10>>>>,
       <<NameKey("UPPER_CHEEK_L"), <<150, 10>>>>,
       <<NameKey("UPPER_CHEEK_R"), <<30, 10>>>>,
       <<NameKey("LOWER_CHEEK_L"), <<140, 10>>>>,
       <<NameKey("LOWER_CHEEK_R"), <<40, 10>>>>,
       <<NameKey("LOWERMOST_CHEEK_L"), <<130, 8>>>>,
       <<NameKey("LOWERMOST_CHEEK_R"), <<50, 8>>>>,
       <<NameKey("CHIN_L"), <<120, 7>>>>,
       <<NameKey("CHIN_R"), <<60, 7>>>>,
       <<NameKey("CHIN"), <<90, 7>>>> >>

Chubbify_perform(scale, lf, heap) ==
    Lambda_perform(Lambda_init(scale, Chubbify_specs, 0), lf, heap)

OpenEyes_specs ==
    << <<NameKey("INNER_EYE_LID_R"), <<-100, 8>>>>,
       <<NameKey("OUTER_EYE_LID_R"), <<-80, 10>>>>,
       <<NameKey("INNER_EYE_BOTTOM_R"), <<100, 5>>>>,
       <<NameKey("OUTER_EYE_BOTTOM_R"), <<80, 5>>>>,
       <<NameKey("INNERMOST_EYEBROW_R"), <<-100, 10>>>>,
       <<NameKey("INNER_EYEBROW_R"), <<-100, 10>>>>,
       <<NameKey("MIDDLE_EYEBROW_R"), <<-100, 10>>>>,
       <<NameKey("OUTER_EYEBROW_R"), <<-100, 10>>>>,
       <<NameKey("OUTERMOST_EYEBROW_R"), <<-100, 10>>>>,
       <<NameKey("INNER_EYE_LID_L"), <<-80, 8>>>>,
       <<NameKey("OUTER_EYE_LID_L"), <<-100, 10>>>>,
       <<NameKey("INNER_EYE_BOTTOM_L"), <<80, 5>>>>,
       <<NameKey("OUTER_EYE_BOTTOM_L"), <<10, 5>>>>,
       <<NameKey("INNERMOST_EYEBROW_L"), <<-80, 10>>>>,
       <<NameKey("INNER_EYEBROW_L"), <<-80, 10>>>>,
       <<NameKey("MIDDLE_EYEBROW_L"), <<-80, 10>>>>,
       <<NameKey("OUTER_EYEBROW_L"), <<-80, 10>>>>,
       <<NameKey("OUTERMOST_EYEBROW_L"), <<-80, 10>>>> >>

OpenEyes_perform(scale, lf, heap) ==
    Lambda_perform(Lambda_init(scale, OpenEyes_specs, 0), lf, heap)

Smile_specs ==
    << <<NameKey("OUTSIDE_MOUTH_CORNER_L"), <<-110, 10>>>>,
       <<NameKey("OUTSIDE_MOUTH_CORNER_R"), <<-70, 10>>>>,
       <<NameKey("INSIDE_MOUTH_CORNER_L"), <<-110, 8>>>>,
       <<NameKey("INSIDE_MOUTH_CORNER_R"), <<-70, 8>>>>,
       <<NameKey("OUTER_OUTSIDE_UPPER_LIP_L"), <<-100, 3>>>>,
       <<NameKey("OUTER_OUTSIDE_UPPER_LIP_R"), <<-80, 3>>>> >>

Smile_perform(scale, lf, heap) ==
    Lambda_perform(Lambda_init(scale, Smile_specs, 0), lf, heap)

----------------------------------------------------------------------------
(* LinearTransform; rotation and shear are counted in quarter turns        *)

LinearTransform_init(scale_x, scale_y, rotation, shear, translation_x,
                     translation_y, rsid) ==
    [cls |-> "LinearTransform", scale_x |-> scale_x, scale_y |-> scale_y,
     rotation |-> rotation, shear |-> shear, translation_x |-> translation_x,
     translation_y |-> translation_y, reference_space |-> rsid]

\* skimage AffineTransform(scale, rotation, shear, translation) applied to p
tform(self, p) ==
    << self.scale_x * CosQ(self.rotation) * p[1]
         - self.scale_y * SinQ(self.rotation + self.shear) * p[2]
         + self.translation_x,
       self.scale_x * SinQ(self.rotation) * p[1]
         + self.scale_y * CosQ(self.rotation + self.shear) * p[2]
         + self.translation_y >>

\* {i: (tformed_inp_points[i] - lf[i])[col] for i in range(68)}
RangeDict(f) == [j \in 1..N |-> <<j - 1, f[j - 1]>>]

LinearTransform_finish_NoBack(self, fit, ref_points, lf, heap) ==
    LET points == heap[lf].points
        tformed == [i \in DOMAIN ref_points |-> tform(self, ref_points[i])]
        x_shifts == RangeDict([i \in 0..(N - 1) |-> Sub(tformed[i], points[i])[1]])
        y_shifts == RangeDict([i \in 0..(N - 1) |-> Sub(tformed[i], points[i])[2]])
    IN  Delegate(x_shifts, y_shifts, lf, heap)

\* LinearTransform.perform once the reference space holds `fit`; lf[i] is
\* lf.points[i]
LinearTransform_finish(self, fit, ref_points, lf, heap) ==
    LET points == heap[lf].points
        tformed_inp_points ==
            [i \in DOMAIN ref_points |-> ref2inp(fit, tform(self, ref_points[i]))]
        x_shifts == RangeDict([i \in 0..(N - 1) |->
                                 Sub(tformed_inp_points[i], points[i])[1]])
        y_shifts == RangeDict([i \in 0..(N - 1) |->
                                 Sub(tformed_inp_points[i], points[i])[2]])
    IN  Delegate(x_shifts, y_shifts, lf, heap)

\* LinearTransform.perform, uninterrupted
LinearTransform_perform(self, lf, heap) ==
    LET fit == DefaultRS_estimate(heap[lf])
    IN  LinearTransform_finish(self, fit, RefPoints(fit, heap[lf].points), lf, heap)

----------------------------------------------------------------------------
(* inputs                                                                  *)

\* a detected face: the 68 landmarks of a frontal layout, turned by q quarter
\* turns and moved by t; the picture's features sit on the landmarks
BasePoint(i) == <<(i % 12) * 100000, (i \div 12) * 100000>>

FaceAt(q, t) ==
    LET pts == [i \in 0..(N - 1) |-> Add(t, Rot(q, BasePoint(i)))]
    IN  LandmarkFace(pts, pts)

Photo1 == FaceAt(0, <<100000, 200000>>)
Photo2 == FaceAt(1, <<700000, 100000>>)

D1(k, v) == << <<k, v>> >>
D2(k1, v1, k2, v2) == << <<k1, v1>>, <<k2, v2>> >>

\* the (x_shifts, y_shifts) arguments of AbsoluteMove that are tried
AMArgs ==
    { <<None, None>>,
      <<Some(D2(0, 4, 67, -6)), Some(D1(5, -2))>>,
      <<Some(D1(-1, 7)), None>>,
      <<Some(D1(5, 3)), Some(D1(68, 2))>>,
      <<Some(D1(-69, 1)), None>> }

E(k, angle, prop) == <<k, <<angle, prop>>>>

Named == << E(NameKey("CHIN"), 90, 7), E(IntKey(48), 180, 5) >>
Aliased == << E(IntKey(8), 0, 10), E(NameKey("CHIN"), 90, 10) >>
BadName == << E(IntKey(5), 0, 10), E(NameKey("NOSE_RING"), 90, 10) >>
Wrapped == << E(IntKey(-1), 270, 10) >>
TwoFaults == << E(IntKey(68), 0, 10), E(NameKey("NOSE_RING"), 90, 10) >>

\* the (scale, specs) arguments of Lambda that are tried; scales in tenths
LambdaArgs ==
    { <<2, Named>>, <<2, Aliased>>, <<2, BadName>>, <<2, Wrapped>>,
      <<2, TwoFaults>>, <<0, Named>> }

Identity == LinearTransform_init(1, 1, 0, 0, 0, 0, 0)

LTArgs ==
    { Identity,
      LinearTransform_init(2, 1, 1, 0, 50000, -20000, 0) }

NegDict(d) == [j \in 1..Len(d) |-> <<d[j][1], -d[j][2]>>]

Opposite(specs) ==
    [j \in 1..Len(specs) |-> <<specs[j][1], <<specs[j][2][1] + 180, specs[j][2][2]>>>>]

\* new-point arrays handed to pts2inst directly
Pts2InstArgs(points) ==
    { [i \in 0..(N - 1) |-> Add(points[i], <<1, 1>>)],
      [i \in 0..(N - 2) |-> points[i]] }

----------------------------------------------------------------------------
(* sequential use: one call at a time                                      *)

Idle == [pc |-> "idle", obj |-> 0, lf |-> 0, ref_points |-> <<>>,
         used |-> <<>>, status |-> "", new |-> 0]

NoCall == [op |-> "", lf |-> 0, status |-> "", new |-> 0, hasdf |-> FALSE,
           xs |-> <<>>, ys |-> <<>>, scale |-> 0, specs |-> <<>>,
           x |-> None, y |-> None, lt |-> Identity, arr |-> <<>>,
           kept |-> TRUE, grew |-> 0]

Init ==
    /\ faces = <<Photo2>>
    /\ calls = <<>>
    /\ objs = <<>>
    /\ rs = <<>>
    /\ thr = [t \in 1..NThreads |-> Idle]

\* the call `c` returned `result`: the heap is as the call left it, and the
\* log notes what came back, whether every face that existed is as it was
\* (kept) and how many faces were made (grew)
Return(c, result) ==
    \E r \in {result} :
    /\ faces' = r.faces
    /\ calls' = Append(calls,
           [c EXCEPT !.status = r.status, !.new = r.new,
                     !.hasdf = r.df.ok, !.xs = r.xs, !.ys = r.ys,
                     !.kept = (/\ Len(r.faces) >= Len(faces)
                               /\ \A i \in 1..Len(faces) : r.faces[i] = faces[i]),
                     !.grew = Len(r.faces) - Len(faces)])
    /\ UNCHANGED <<objs, rs, thr>>

LastOk == calls # <<>> /\ calls[Len(calls)].status = "ok"

\* the shift maps a logged call reduced to
ArgDict(o) == IF o.none THEN <<>> ELSE o.d
ShiftsX(c) == IF c.op = "AbsoluteMove" THEN ArgDict(c.x) ELSE c.xs
ShiftsY(c) == IF c.op = "AbsoluteMove" THEN ArgDict(c.y) ELSE c.ys

\* AbsoluteMove(x_shifts, y_shifts).perform(lf)
AbsoluteMoveCall ==
    /\ Len(calls) < MaxCalls
    /\ \E lf \in 1..Len(faces) :
       \E a \in AMArgs \cup (IF LastOk
                             THEN {<<Some(NegDict(ShiftsX(calls[Len(calls)]))),
                                     Some(NegDict(ShiftsY(calls[Len(calls)])))>>}
                             ELSE {}) :
          Return([NoCall EXCEPT !.op = "AbsoluteMove", !.lf = lf, !.x = a[1], !.y = a[2]],
                 AbsoluteMove_perform(AbsoluteMove_init(a[1], a[2]), lf, faces))

\* Lambda(scale, specs).perform(lf)
LambdaCall ==
    /\ Len(calls) < MaxCalls
    /\ \E lf \in 1..Len(faces) :
       \E a \in LambdaArgs \cup (IF LastOk /\ calls[Len(calls)].specs # <<>>
                                 THEN {<<calls[Len(calls)].scale,
                                         Opposite(calls[Len(calls)].specs)>>}
                                 ELSE {}) :
          Return([NoCall EXCEPT !.op = "Lambda", !.lf = lf, !.scale = a[1],
                                !.specs = a[2]],
                 Lambda_perform(Lambda_init(a[1], a[2], 0), lf, faces))

\* Chubbify(scale).perform(lf); the default scale is 0.2
ChubbifyCall ==
    /\ Len(calls) < MaxCalls
    /\ \E lf \in 1..Len(faces) :
       \E scale \in {2} :
          Return([NoCall EXCEPT !.op = "Chubbify", !.lf = lf, !.scale = scale,
                                !.specs = Chubbify_specs],
                 Chubbify_perform(scale, lf, faces))

\* OpenEyes(scale).perform(lf)
OpenEyesCall ==
    /\ Len(calls) < MaxCalls
    /\ \E lf \in 1..Len(faces) :
       \E scale \in {1} :
          Return([NoCall EXCEPT !.op = "OpenEyes", !.lf = lf, !.scale = scale,
                                !.specs = OpenEyes_specs],
                 OpenEyes_perform(scale, lf, faces))

\* Smile(scale).perform(lf); the default scale is 0.1
SmileCall ==
    /\ Len(calls) < MaxCalls
    /\ \E lf \in 1..Len(faces) :
       \E scale \in {1} :
          Return([NoCall EXCEPT !.op = "Smile", !.lf = lf, !.scale = scale,
                                !.specs = Smile_specs],
                 Smile_perform(scale, lf, faces))

\* LinearTransform(...).perform(lf)
LinearTransformCall ==
    /\ Len(calls) < MaxCalls
    /\ \E lf \in 1..Len(faces) :
       \E lt \in LTArgs :
          Return([NoCall EXCEPT !.op = "LinearTransform", !.lf = lf, !.lt = lt],
                 LinearTransform_perform(lt, lf, faces))

\* Action.pts2inst(new_points, lf)
Pts2InstCall ==
    /\ Len(calls) < MaxCalls
    /\ \E lf \in 1..Len(faces) :
       \E arr \in Pts2InstArgs(faces[lf].points) :
          Return([NoCall EXCEPT !.op = "pts2inst", !.lf = lf, !.arr = arr],
                 pts2inst(arr, lf, faces))

Next ==
    \/ AbsoluteMoveCall
    \/ LambdaCall
    \/ ChubbifyCall
    \/ OpenEyesCall
    \/ SmileCall
    \/ LinearTransformCall
    \/ Pts2InstCall

Spec == Init /\ [][Next]_vars

----------------------------------------------------------------------------
(* concurrent use: perform invocations of constructed actions, interleaved *)
(* at the calls perform makes on its reference space                       *)

InitConc ==
    /\ faces = <<Photo1, Photo2>>
    /\ calls = <<>>
    /\ objs = <<>>
    /\ rs = <<>>
    /\ thr = [t \in 1..NThreads |-> Idle]

\* reference_space or DefaultRS(): the space given, or a new one
SpaceFor(arg) == IF arg = 0 THEN Len(rs) + 1 ELSE arg
SpacesAfter(arg) == IF arg = 0 THEN Append(rs, Unfitted) ELSE rs

\* Lambda.__init__(scale, specs, reference_space)
NewLambda ==
    /\ Len(objs) < MaxObjs
    /\ \E arg \in 0..Len(rs) :
          /\ objs' = Append(objs, Lambda_init(2, Named, SpaceFor(arg)))
          /\ rs' = SpacesAfter(arg)
    /\ UNCHANGED <<faces, calls, thr>>

\* LinearTransform.__init__(..., reference_space)
NewLinearTransform ==
    /\ Len(objs) < MaxObjs
    /\ \E arg \in 0..Len(rs) :
          /\ objs' = Append(objs, LinearTransform_init(2, 1, 0, 0, 0, 0, SpaceFor(arg)))
          /\ rs' = SpacesAfter(arg)
    /\ UNCHANGED <<faces, calls, thr>>

\* perform is entered: self.reference_space.estimate(lf)
Estimate(t) ==
    /\ thr[t].pc = "idle"
    /\ \E o \in 1..Len(objs) :
       \E lf \in 1..Len(faces) :
          /\ rs' = [rs EXCEPT ![objs[o].reference_space] = DefaultRS_estimate(faces[lf])]
          /\ thr' = [thr EXCEPT ![t] = [Idle EXCEPT !.pc = "estimated", !.obj = o,
                                                    !.lf = lf]]
    /\ UNCHANGED <<faces, calls, objs>>

\* ref_points = self.reference_space.inp2ref(lf.points)
Inp2Ref(t) ==
    /\ thr[t].pc = "estimated"
    /\ LET fit == rs[objs[thr[t].obj].reference_space]
       IN  thr' = [thr EXCEPT ![t].pc = "mapped",
                              ![t].ref_points = RefPoints(fit, faces[thr[t].lf].points),
                              ![t].used = Append(@, fit)]
    /\ UNCHANGED <<faces, calls, objs, rs>>

\* the rest of perform: ref2inp, the shifts, AbsoluteMove
Finish(t) ==
    /\ thr[t].pc = "mapped"
    /\ LET self == objs[thr[t].obj]
           fit == rs[self.reference_space]
       IN  \E r \in {IF self.cls = "Lambda"
                     THEN Lambda_finish(self, fit, thr[t].ref_points, thr[t].lf, faces)
                     ELSE LinearTransform_finish(self, fit, thr[t].ref_points,
                                                 thr[t].lf, faces)} :
              /\ faces' = r.faces
              /\ thr' = [thr EXCEPT ![t].pc = "done", ![t].status = r.status,
                                    ![t].new = r.new, ![t].used = Append(@, fit)]
    /\ UNCHANGED <<calls, objs, rs>>

NextConc ==
    \/ NewLambda
    \/ NewLinearTransform
    \/ \E t \in 1..NThreads : Estimate(t)
    \/ \E t \in 1..NThreads : Inp2Ref(t)
    \/ \E t \in 1..NThreads : Finish(t)

SpecConc == InitConc /\ [][NextConc]_vars

----------------------------------------------------------------------------
(* properties                                                              *)

Landmarks == 0..(N - 1)

Call(j) == calls[j]

\* the call that has just returned (every call is, in the state it leaves)
Returned == {calls[j] : j \in {Len(calls)} \ {0}}
Input(c) == faces[c.lf]
Output(c) == faces[c.new]

\* the offset a shift map gives landmark i: its entry for i, else 0
ShiftOf(d, i) == IF \E j \in 1..Len(d) : d[j][1] = i
                 THEN d[CHOOSE j \in 1..Len(d) : d[j][1] = i][2]
                 ELSE 0

KeysInRange(d) == \A j \in 1..Len(d) : d[j][1] \in Landmarks

ByLambda(c) == c.op \in {"Lambda", "Chubbify", "OpenEyes", "Smile"}
ByAction(c) == ByLambda(c) \/ c.op \in {"AbsoluteMove", "LinearTransform"}

\* the landmark a spec key names, -1 when it names none
LandmarkOf(k) == IF k.kind = "int"
             THEN (IF k.idx \in Landmarks THEN k.idx ELSE -1)
             ELSE (IF k.name \in DOMAIN LANDMARK_NAMES THEN LANDMARK_NAMES[k.name] ELSE -1)

WellFormed(specs) == \A j \in 1..Len(specs) : LandmarkOf(specs[j][1]) >= 0

HasUnknownName(specs) ==
    \E j \in 1..Len(specs) :
        specs[j][1].kind = "name" /\ specs[j][1].name \notin DOMAIN LANDMARK_NAMES

IntKeysInRange(specs) ==
    \A j \in 1..Len(specs) : specs[j][1].kind = "int" => specs[j][1].idx \in Landmarks

\* C1: AbsoluteMove with keys in 0..67 succeeds and returns point i equal to
\* the input's point i plus (x_shifts[i], y_shifts[i]), an absent index (or a
\* map given as None or empty) counting as 0; with both maps empty the points
\* returned are the input's.
C1_AbsoluteMoveAdds ==
    \A c \in Returned :
        LET x == ArgDict(c.x)
            y == ArgDict(c.y)
        IN  (c.op = "AbsoluteMove" /\ KeysInRange(x) /\ KeysInRange(y)) =>
               /\ c.status = "ok"
               /\ \A i \in Landmarks :
                     Output(c).points[i] =
                        <<Input(c).points[i][1] + ShiftOf(x, i),
                          Input(c).points[i][2] + ShiftOf(y, i)>>
               /\ (x = <<>> /\ y = <<>>) => Output(c).points = Input(c).points

C1_Witness ==
    \E j \in 1..Len(calls) :
        /\ Call(j).op = "AbsoluteMove" /\ Call(j).status = "ok"
        /\ KeysInRange(ArgDict(Call(j).x)) /\ KeysInRange(ArgDict(Call(j).y))
        /\ ShiftOf(ArgDict(Call(j).x), 67) # 0
        /\ ShiftOf(ArgDict(Call(j).y), 5) # 0
        /\ ShiftOf(ArgDict(Call(j).y), 67) = 0

C3_InputKept ==
    \A c \in Returned :
        ByAction(c) =>
               /\ c.kept
               /\ c.status = "ok" =>
                     /\ c.grew = 1 /\ c.new # c.lf /\ c.new \in 1..Len(faces)
                     /\ ShapeOk(Output(c).points)
                     /\ DOMAIN Output(c).img = DOMAIN Input(c).img
                     /\ \A i \in Landmarks :
                           (\A e \in 1..Len(ShiftsX(c)) : NpIndex(ShiftsX(c)[e][1]) # i)
                           /\ (\A e \in 1..Len(ShiftsY(c)) : NpIndex(ShiftsY(c)[e][1]) # i)
                           => Output(c).points[i] = Input(c).points[i]
               /\ c.status # "ok" => c.grew = 0

C3_Witness ==
    /\ Len(calls) >= 2
    /\ ByAction(Call(1)) /\ ByAction(Call(2))
    /\ Call(1).status = "ok" /\ Call(2).status = "ok"
    /\ Call(1).lf = Call(2).lf
    /\ Output(Call(1)).points # Input(Call(1)).points
    /\ Output(Call(2)).points # Input(Call(2)).points
    /\ faces[Call(1).lf] = Photo2

\* C5: pts2inst with a new-points array that is not of shape (68, 2) fails
\* with a ShapeError, returns no face and no field, and leaves the input face
\* (and every other face) as it was.
C5_ShapeError ==
    \A c \in Returned :
        (c.op = "pts2inst" /\ ~ShapeOk(c.arr)) =>
               /\ c.status = "ShapeError"
               /\ c.new = 0 /\ ~c.hasdf
               /\ c.kept /\ c.grew = 0

C5_Witness ==
    \E j \in 1..Len(calls) :
        /\ Call(j).op = "pts2inst" /\ Rows(Call(j).arr) = N - 1
        /\ Call(j).status = "ShapeError"

\* C6 (as claimed): AbsoluteMove with a key outside 0..67 in x_shifts or
\* y_shifts, negative or 68 and more, fails with a LandmarkIndexError and makes
\* no new face.
C6_OutOfRangeRaises ==
    \A c \in Returned :
        (c.op = "AbsoluteMove"
             /\ ~(KeysInRange(ArgDict(c.x)) /\ KeysInRange(ArgDict(c.y)))) =>
               (c.status = "LandmarkIndexError" /\ c.new = 0 /\ c.grew = 0)

C8_ScaleZero ==
    \A c \in Returned :
        (ByLambda(c) /\ c.scale = 0) =>
               /\ \A e \in 1..Len(c.xs) : c.xs[e][2] = 0
               /\ \A e \in 1..Len(c.ys) : c.ys[e][2] = 0
               /\ c.status = "ok" =>
                     /\ Len(c.xs) > 0
                     /\ Output(c).points = Input(c).points

C8_Witness ==
    \E j \in 1..Len(calls) :
        /\ Call(j).op = "Lambda" /\ Call(j).scale = 0 /\ Call(j).status = "ok"
        /\ Call(j).specs = Named
        /\ DefaultRS_estimate(Input(Call(j))).rot # 0

\* C9: LinearTransform succeeds, the shift it hands AbsoluteMove for each of
\* the 68 indices is toInput(affine(toReference(p_i))) - p_i, and with the
\* identity parameters every landmark returned is at its input position.
C9_LinearTransform ==
    \A c \in Returned :
        LET fit == DefaultRS_estimate(Input(c))
        IN  c.op = "LinearTransform" =>
               /\ c.status = "ok"
               /\ \A i \in Landmarks :
                     LET back == ref2inp(fit, tform(c.lt, inp2ref(fit, Input(c).points[i])))
                     IN  /\ ShiftOf(c.xs, i) = back[1] - Input(c).points[i][1]
                         /\ ShiftOf(c.ys, i) = back[2] - Input(c).points[i][2]
                         /\ Output(c).points[i] = back
               /\ (c.lt.scale_x = 1 /\ c.lt.scale_y = 1 /\ c.lt.rotation = 0
                   /\ c.lt.shear = 0 /\ c.lt.translation_x = 0
                   /\ c.lt.translation_y = 0) => Output(c).points = Input(c).points

C9_Witness ==
    \E j \in 1..Len(calls) :
        /\ Call(j).op = "LinearTransform" /\ Call(j).lt = Identity
        /\ Call(j).status = "ok"
        /\ DefaultRS_estimate(Input(Call(j))).rot # 0
        /\ DefaultRS_estimate(Input(Call(j))).origin # <<0, 0>>

\* C10: when an action is performed on the face another action returned and
\* its pixel shifts are, landmark by landmark, the exact negation of that
\* action's shifts, the face it returns has the landmark positions of the
\* face the first action started from.
C10_NegationRestores ==
    \A b \in Returned : \A i \in 1..(Len(calls) - 1) :
        LET a == Call(i)
        IN  (/\ ByAction(a) /\ ByAction(b)
             /\ a.status = "ok" /\ b.status = "ok" /\ b.lf = a.new
             /\ KeysInRange(ShiftsX(a)) /\ KeysInRange(ShiftsY(a))
             /\ KeysInRange(ShiftsX(b)) /\ KeysInRange(ShiftsY(b))
             /\ \A k \in Landmarks :
                   /\ ShiftOf(ShiftsX(b), k) = -ShiftOf(ShiftsX(a), k)
                   /\ ShiftOf(ShiftsY(b), k) = -ShiftOf(ShiftsY(a), k))
            => Output(b).points = Input(a).points

C10_Witness ==
    /\ Len(calls) >= 2
    /\ Call(1).op = "Chubbify" /\ Call(1).status = "ok"
    /\ Call(2).op = "Lambda" /\ Call(2).status = "ok" /\ Call(2).lf = Call(1).new
    /\ Call(2).specs = Opposite(Chubbify_specs)
    /\ Output(Call(1)).points # Input(Call(1)).points
    /\ \A k \in Landmarks :
          /\ ShiftOf(Call(2).xs, k) = -ShiftOf(Call(1).xs, k)
          /\ ShiftOf(Call(2).ys, k) = -ShiftOf(Call(1).ys, k)
    /\ Output(Call(2)).points = Input(Call(1)).points

\* C4 (as claimed): the mappings every perform invocation uses are those
\* fitted to its own face, however the invocations are interleaved.
C4_OwnFit ==
    \A t \in 1..NThreads :
        \A u \in 1..Len(thr[t].used) :
            thr[t].used[u] = DefaultRS_estimate(faces[thr[t].lf])

====
